---- MODULE Spec2Model ----
(***************************************************************************)
(* Model of the Sinhala/Singlish hate-speech moderation server:            *)
(*   - SinhalaHateSpeechModel (server/storage.ts): the rule-based scoring  *)
(*     engine, computed in exact rational arithmetic with JavaScript's     *)
(*     NaN and property-lookup behaviour;                                  *)
(*   - MemStorage (server/storage.ts): content analyses, moderation queue  *)
(*     and system statistics;                                              *)
(*   - the Express routes and callMLBackend (the routes file that talks to *)
(*     the ML backend on port 5003).                                       *)
(***************************************************************************)
EXTENDS Integers, Sequences, FiniteSets, TLC

VARIABLES
    mlModel,          \* the SinhalaHateSpeechModel instance: its three pattern tables
    text,             \* engine run: the text under analysis
    results,          \* engine run: what analyze(text) returned, call by call
    others,           \* engine run: analyze calls made on other texts
    synth,            \* policy run: a synthetic scorer output and caller input
    built,            \* policy run: the record createContentAnalysis builds from it
    payload,          \* merge run: how the fetch of the ML backend settled
    merged,           \* merge run: what callMLBackend maps it to
    contentAnalyses,  \* MemStorage.contentAnalyses: its values in insertion order
    moderationQueues, \* MemStorage.moderationQueues: its values in insertion order
    systemStats,      \* MemStorage.systemStats
    nextId,           \* the next id randomUUID() hands out
    received,         \* the number of POST /api/analyze requests received
    req,              \* the POST /api/analyze request in flight, or the last one done
    response,         \* the last response sent
    forwarded,        \* the bodies POSTed to the feedback endpoint of the ML backend
    decision,         \* the last PATCH request on the moderation queue: its route and id
    outputs,          \* outputs of the three models, given to the ensemble directly
    combined          \* what the ensemble makes of outputs

vars == <<mlModel, text, results, others, synth, built, payload, merged,
          contentAnalyses, moderationQueues, systemStats, nextId, received, req, response,
          forwarded, decision, outputs, combined>>

engineVars == <<text, results, others>>
policyVars == <<synth, built>>
mergeVars  == <<payload, merged>>
ensembleVars == <<outputs, combined>>
serverVars == <<contentAnalyses, moderationQueues, systemStats, nextId, received, req, response,
               forwarded, decision>>

(***************************************************************************)
(* JavaScript numbers.  A finite number is an exact fraction <<n, d>> in   *)
(* lowest terms with d > 0.  Values with d = 0 are not finite numbers:     *)
(* NaN, a function object (what a table lookup of an Object.prototype key  *)
(* such as 'constructor' yields) and undefined (a missing key).            *)
(***************************************************************************)
NaN       == <<0, 0>>
FnObject  == <<1, 0>>
Undefined == <<2, 0>>

IsNum(x) == x[2] # 0

RECURSIVE GCD(_, _)
GCD(a, b) == IF b = 0 THEN a ELSE GCD(b, a % b)

AbsInt(n) == IF n < 0 THEN -n ELSE n

Norm(n, d) ==
    LET g == GCD(AbsInt(n), d)
    IN  <<n \div g, d \div g>>

LCM(a, b) == (a \div GCD(a, b)) * b

\* a decimal literal: Dec(13, 10) is 1.3
Dec(n, d) == Norm(n, d)

Zero == <<0, 1>>
One  == <<1, 1>>

\* a + b; anything that is not a number makes the sum NaN
Plus(a, b) ==
    IF ~IsNum(a) \/ ~IsNum(b) THEN NaN
    ELSE LET l == LCM(a[2], b[2])
         IN  Norm(a[1] * (l \div a[2]) + b[1] * (l \div b[2]), l)

Neg(a) == IF ~IsNum(a) THEN NaN ELSE <<-a[1], a[2]>>

Minus(a, b) == Plus(a, Neg(b))

\* a * b
Times(a, b) ==
    IF ~IsNum(a) \/ ~IsNum(b) THEN NaN
    ELSE LET g1 == GCD(AbsInt(a[1]), b[2])
             g2 == GCD(AbsInt(b[1]), a[2])
         IN  <<(a[1] \div g1) * (b[1] \div g2), (a[2] \div g2) * (b[2] \div g1)>>

\* a / k for an integer k >= 0.  0 / 0 is NaN; the engine never divides a
\* non-zero sum by zero (its sums run over the tokens it divides by).
DivBy(a, k) ==
    CASE ~IsNum(a)           -> NaN
      [] k # 0               -> Times(a, <<1, k>>)
      [] k = 0 /\ a[1] = 0   -> NaN

\* p/q < r/s for p, r >= 0 and q, s > 0, by continued fractions (no products)
RECURSIVE FracLess(_, _, _, _)
FracLess(p, q, r, s) ==
    IF p \div q # r \div s THEN p \div q < r \div s
    ELSE IF r % s = 0 THEN FALSE
    ELSE IF p % q = 0 THEN TRUE
    ELSE FracLess(s, r % s, q, p % q)

\* a < b; false when either side is NaN
Less(a, b) ==
    /\ IsNum(a)
    /\ IsNum(b)
    /\ IF a[1] < 0
       THEN b[1] >= 0 \/ FracLess(-b[1], b[2], -a[1], a[2])
       ELSE b[1] >= 0 /\ FracLess(a[1], a[2], b[1], b[2])

Greater(a, b) == Less(b, a)

\* Math.min and Math.max: NaN when any argument is NaN
MathMin(a, b) ==
    IF ~IsNum(a) \/ ~IsNum(b) THEN NaN
    ELSE IF Less(b, a) THEN b ELSE a

MathMax(a, b) ==
    IF ~IsNum(a) \/ ~IsNum(b) THEN NaN
    ELSE IF Less(a, b) THEN b ELSE a

MathAbs(a) == IF ~IsNum(a) THEN NaN ELSE <<AbsInt(a[1]), a[2]>>

\* JavaScript truthiness of a table lookup: a function object is truthy,
\* undefined, NaN and 0 are falsy
Truthy(x) == x = FnObject \/ (IsNum(x) /\ x[1] # 0)

\* x || dflt
OrElse(x, dflt) == IF Truthy(x) THEN x ELSE dflt

\* a number in the closed interval [0, 1]
InUnit(x) == IsNum(x) /\ ~Less(x, Zero) /\ ~Less(One, x)


(***************************************************************************)
(* Strings are sequences of UTF-16 code units.  A printable ASCII unit is  *)
(* written as itself, any other unit (and the backquote, "u0060") by its   *)
(* code point ("u0DB8").                                                   *)
(***************************************************************************)
UpperCase == <<"A", "B", "C", "D", "E", "F", "G", "H", "I", "J", "K", "L", "M",
               "N", "O", "P", "Q", "R", "S", "T", "U", "V", "W", "X", "Y", "Z">>
LowerCase == <<"a", "b", "c", "d", "e", "f", "g", "h", "i", "j", "k", "l", "m",
               "n", "o", "p", "q", "r", "s", "t", "u", "v", "w", "x", "y", "z">>

LowerChar(c) ==
    IF \E k \in 1..26 : UpperCase[k] = c
    THEN LowerCase[CHOOSE k \in 1..26 : UpperCase[k] = c]
    ELSE c

\* String.prototype.toLowerCase
toLowerCase(s) == [i \in 1..Len(s) |-> LowerChar(s[i])]

\* the code units matched by \s (those the inputs use), and by [\s‌‍]
WhiteSpace == {" ", "\t", "\n"}
ZWNJ == "u200C"
ZWJ  == "u200D"
TokenSeparators == WhiteSpace \cup {ZWNJ, ZWJ}

\* the lower-case property names every object literal inherits from Object.prototype
ProtoKeys == { <<"c", "o", "n", "s", "t", "r", "u", "c", "t", "o", "r">>,
               <<"_", "_", "p", "r", "o", "t", "o", "_", "_">> }

\* table[key] on an object literal: the own entry, else the inherited
\* property (an object, not a number), else undefined
Lookup(table, key) ==
    IF key \in DOMAIN table THEN table[key]
    ELSE IF key \in ProtoKeys THEN FnObject
    ELSE Undefined


(***************************************************************************)
(* The lexicon tables, entry by entry as the source writes them.            *)
(***************************************************************************)
\* SinhalaHateSpeechModel.hatePatterns
hatePatterns ==
       <<"u0DB8", "u0DD6">> :> Dec(9, 10)   \* මූ
    @@ <<"u0D9C", "u0DDC", "u0DB1", "u0DCA">> :> Dec(85, 100)   \* ගොන්
    @@ <<"u0DC4", "u0DD4", "u0DAD", "u0DCA", "u0DAD">> :> Dec(95, 100)   \* හුත්ත
    @@ <<"u0DB6", "u0DBD", "u0DCA", "u0DBD", "u0DCF">> :> Dec(7, 10)   \* බල්ලා
    @@ <<"u0DB4", "u0D9A", "u0DCF">> :> Dec(9, 10)   \* පකා
    @@ <<"u0D9A", "u0DBB", "u0DD4", "u0DB8", "u0DBA", "u0DCF">> :> Dec(8, 10)   \* කරුමයා
    @@ <<"u0DC4", "u0DBB", "u0D9A", "u0DCA">> :> Dec(75, 100)   \* හරක්
    @@ <<"u0D91", "u0DC5", "u0DD4", "u0DC0", "u0DCF">> :> Dec(7, 10)   \* එළුවා
    @@ <<"u0DC0", "u0DDA", "u0DC3", "u0DD2">> :> Dec(9, 10)   \* වේසි
    @@ <<"s", "t", "u", "p", "i", "d">> :> Dec(6, 10)   \* stupid
    @@ <<"i", "d", "i", "o", "t">> :> Dec(6, 10)   \* idiot
    @@ <<"f", "o", "o", "l">> :> Dec(5, 10)   \* fool
    @@ <<"h", "a", "t", "e">> :> Dec(7, 10)   \* hate
    @@ <<"k", "i", "l", "l">> :> Dec(8, 10)   \* kill
    @@ <<"d", "i", "e">> :> Dec(7, 10)   \* die
    @@ <<"t", "r", "a", "s", "h">> :> Dec(6, 10)   \* trash
    @@ <<"l", "o", "s", "e", "r">> :> Dec(5, 10)   \* loser
    @@ <<"b", "a", "s", "t", "a", "r", "d">> :> Dec(8, 10)   \* bastard
    @@ <<"s", "t", "@", "p", "i", "d">> :> Dec(6, 10)   \* st@pid
    @@ <<"s", "t", "*", "p", "i", "d">> :> Dec(6, 10)   \* st*pid
    @@ <<"h", "8">> :> Dec(7, 10)   \* h8
    @@ <<"k", "1", "l", "l">> :> Dec(8, 10)   \* k1ll
    @@ <<"d", "1", "e">> :> Dec(7, 10)   \* d1e
    @@ <<"m", "u", "u">> :> Dec(85, 100)   \* muu
    @@ <<"g", "0", "n">> :> Dec(8, 10)   \* g0n
    @@ <<"p", "a", "k", "@">> :> Dec(85, 100)   \* pak@
    @@ <<"w", "3", "s", "i">> :> Dec(85, 100)   \* w3si
    @@ <<"u0D85", "u0DAF">> :> Dec(3, 10)   \* අද
    @@ <<"u0DB8", "u0DBB", "u0DB1", "u0DCA", "u0DB1">> :> Dec(9, 10)   \* මරන්න
    @@ <<"u0DB1", "u0DD0", "u0DAD", "u0DD2">> :> Dec(2, 10)   \* නැති
    @@ <<"u0D9A", "u0DBB">> :> Dec(1, 10)   \* කර
    @@ <<"u0D91", "u0DB1", "u0DCA", "u0DB1">> :> Dec(2, 10)   \* එන්න
    @@ <<"u0DBA", "u0DB1", "u0DCA", "u0DB1">> :> Dec(3, 10)   \* යන්න
    @@ <<"u0D9C", "u0DC4", "u0DB1", "u0DCA", "u0DB1">> :> Dec(7, 10)   \* ගහන්න
    @@ <<"u0DAF", "u0DD9", "u0DB1", "u0DCA", "u0DB1">> :> Dec(2, 10)   \* දෙන්න
    @@ <<"g", "e", "t", " ", "o", "u", "t">> :> Dec(6, 10)   \* get out
    @@ <<"g", "o", " ", "a", "w", "a", "y">> :> Dec(5, 10)   \* go away
    @@ <<"s", "h", "u", "t", " ", "u", "p">> :> Dec(7, 10)   \* shut up
    @@ <<"l", "e", "a", "v", "e", " ", "m", "e">> :> Dec(4, 10)   \* leave me

\* SinhalaHateSpeechModel.harassmentPatterns
harassmentPatterns ==
       <<"u0DB8", "u0DBB", "u0DB1", "u0DC0", "u0DCF">> :> Dec(9, 10)   \* මරනවා
    @@ <<"u0D9C", "u0DC4", "u0DB1", "u0DC0", "u0DCF">> :> Dec(8, 10)   \* ගහනවා
    @@ <<"u0D9A", "u0DB4", "u0DB1", "u0DC0", "u0DCF">> :> Dec(85, 100)   \* කපනවා
    @@ <<"u0DB6", "u0DB1", "u0DD2", "u0DB1", "u0DC0", "u0DCF">> :> Dec(7, 10)   \* බනිනවා
    @@ <<"t", "h", "r", "e", "a", "t", "e", "n">> :> Dec(8, 10)   \* threaten
    @@ <<"w", "a", "r", "n", "i", "n", "g">> :> Dec(6, 10)   \* warning
    @@ <<"w", "a", "t", "c", "h", " ", "o", "u", "t">> :> Dec(7, 10)   \* watch out
    @@ <<"b", "e", " ", "c", "a", "r", "e", "f", "u", "l">> :> Dec(5, 10)   \* be careful
    @@ <<"u0D85", "u0DC0", "u0DA2", "u0DCF", "u0DAD", "u0D9A">> :> Dec(8, 10)   \* අවජාතක
    @@ <<"u0DB1", "u0DCF", "u0D9A", "u0DD2">> :> Dec(7, 10)   \* නාකි
    @@ <<"u0DB4", "u0DD2", "u0DC3", "u0DCA", "u0DC3", "u0DD4">> :> Dec(6, 10)   \* පිස්සු
    @@ <<"u0D85", "u0DB8", "u0DCF", "u0DBB", "u0DD4">> :> Dec(7, 10)   \* අමාරු
    @@ <<"u", "g", "l", "y">> :> Dec(6, 10)   \* ugly
    @@ <<"f", "a", "t">> :> Dec(5, 10)   \* fat
    @@ <<"w", "o", "r", "t", "h", "l", "e", "s", "s">> :> Dec(8, 10)   \* worthless
    @@ <<"u", "s", "e", "l", "e", "s", "s">> :> Dec(7, 10)   \* useless
    @@ <<"u0DC0", "u0DDA", "u0DC3", "u0DD2">> :> Dec(9, 10)   \* වේසි
    @@ <<"u0D85", "u0DB4", "u0DBB", "u0DCF", "u0DAF", "u0DBA">> :> Dec(7, 10)   \* අපරාදය
    @@ <<"i", "n", "a", "p", "p", "r", "o", "p", "r", "i", "a", "t", "e">> :> Dec(6, 10)   \* inappropriate
    @@ <<"t", "o", "u", "c", "h">> :> Dec(4, 10)   \* touch

\* SinhalaHateSpeechModel.positivePatterns
positivePatterns ==
       <<"u0DC4", "u0DDC", "u0DB3">> :> Dec(8, 10)   \* හොඳ
    @@ <<"u0DBD", "u0DC3", "u0DCA", "u0DC3", "u0DB1">> :> Dec(7, 10)   \* ලස්සන
    @@ <<"u0DC3", "u0DAD", "u0DD4", "u0DA7", "u0DD4">> :> Dec(8, 10)   \* සතුටු
    @@ <<"u0D86", "u0DAF", "u0DBB", "u0DBA">> :> Dec(9, 10)   \* ආදරය
    @@ <<"u0DC3", "u0DD4", "u0DB7">> :> Dec(7, 10)   \* සුභ
    @@ <<"u0DB4", "u0DD2", "u0DB1", "u0DCA">> :> Dec(8, 10)   \* පින්
    @@ <<"u0DC3", "u0DCF", "u0DAF", "u0DD4">> :> Dec(9, 10)   \* සාදු
    @@ <<"u0DB1", "u0DD2", "u0DC0", "u0DB1", "u0DCA">> :> Dec(9, 10)   \* නිවන්
    @@ <<"u0DB8", "u0DDA", "u0DAD", "u0DCA", "u0DAD", "u0DCF">> :> Dec(9, 10)   \* මේත්තා
    @@ <<"g", "o", "o", "d">> :> Dec(6, 10)   \* good
    @@ <<"n", "i", "c", "e">> :> Dec(6, 10)   \* nice
    @@ <<"g", "r", "e", "a", "t">> :> Dec(7, 10)   \* great
    @@ <<"a", "w", "e", "s", "o", "m", "e">> :> Dec(8, 10)   \* awesome
    @@ <<"l", "o", "v", "e">> :> Dec(8, 10)   \* love
    @@ <<"t", "h", "a", "n", "k", "s">> :> Dec(7, 10)   \* thanks
    @@ <<"p", "l", "e", "a", "s", "e">> :> Dec(6, 10)   \* please
    @@ <<"s", "o", "r", "r", "y">> :> Dec(7, 10)   \* sorry
    @@ <<"b", "e", "a", "u", "t", "i", "f", "u", "l">> :> Dec(7, 10)   \* beautiful

\* getBigramHateScore: bigramPatterns
bigramPatterns ==
       <<"u0DB8", "u0DD6", " ", "u0DB6", "u0DBD", "u0DCA", "u0DBD", "u0DCF">> :> Dec(95, 100)   \* මූ බල්ලා
    @@ <<"u0D9C", "u0DDC", "u0DB1", "u0DCA", " ", "u0DC4", "u0DBB", "u0D9A", "u0DCA">> :> Dec(9, 10)   \* ගොන් හරක්
    @@ <<"s", "t", "u", "p", "i", "d", " ", "f", "o", "o", "l">> :> Dec(8, 10)   \* stupid fool
    @@ <<"h", "a", "t", "e", " ", "y", "o", "u">> :> Dec(85, 100)   \* hate you
    @@ <<"k", "i", "l", "l", " ", "y", "o", "u", "r", "s", "e", "l", "f">> :> Dec(95, 100)   \* kill yourself
    @@ <<"g", "o", " ", "d", "i", "e">> :> Dec(9, 10)   \* go die
    @@ <<"s", "h", "u", "t", " ", "u", "p">> :> Dec(7, 10)   \* shut up
    @@ <<"g", "e", "t", " ", "o", "u", "t">> :> Dec(6, 10)   \* get out
    @@ <<"u0DB6", "u0DBA", "u0DA7", " ", "u0DBA", "u0DB1", "u0DCA", "u0DB1">> :> Dec(8, 10)   \* බයට යන්න

\* getEmotionalWeight: emotionalPatterns
emotionalPatterns ==
       <<"!">> :> Dec(3, 10)   \* !
    @@ <<"?">> :> Dec(2, 10)   \* ?
    @@ <<"u0D85", "u0DB1", "u0DDA">> :> Dec(4, 10)   \* අනේ
    @@ <<"u0DB8", "u0DDC", "u0DB1">> :> Dec(3, 10)   \* මොන
    @@ <<"u0D91", "u0DC4", "u0DD9", "u0DB8">> :> Dec(2, 10)   \* එහෙම
    @@ <<"r", "e", "a", "l", "l", "y">> :> Dec(2, 10)   \* really
    @@ <<"s", "e", "r", "i", "o", "u", "s", "l", "y">> :> Dec(3, 10)   \* seriously
    @@ <<"w", "t", "f">> :> Dec(6, 10)   \* wtf
    @@ <<"o", "m", "g">> :> Dec(4, 10)   \* omg

\* getNgramHateScore: obfuscatedPatterns
obfuscatedPatterns ==
       <<"s", "t">> :> Dec(1, 10)   \* st
    @@ <<"u", "p">> :> Dec(1, 10)   \* up
    @@ <<"i", "d">> :> Dec(1, 10)   \* id
    @@ <<"@", "t">> :> Dec(2, 10)   \* @t
    @@ <<"*", "t">> :> Dec(2, 10)   \* *t
    @@ <<"h", "8">> :> Dec(5, 10)   \* h8
    @@ <<"k", "1">> :> Dec(3, 10)   \* k1
    @@ <<"l", "l">> :> Dec(2, 10)   \* ll
    @@ <<"d", "1">> :> Dec(3, 10)   \* d1
    @@ <<"m", "m">> :> Dec(2, 10)   \* mm


(***************************************************************************)
(* SinhalaHateSpeechModel: the scoring engine.  m is the instance (its     *)
(* three pattern tables).                                                  *)
(***************************************************************************)

\* text.split(/[\s‌‍]+/).filter(token => token.length > 0)
RECURSIVE SplitFrom(_, _, _)
SplitFrom(s, i, cur) ==
    IF i > Len(s)
    THEN IF cur = <<>> THEN <<>> ELSE <<cur>>
    ELSE IF s[i] \in TokenSeparators
         THEN IF cur = <<>> THEN SplitFrom(s, i + 1, <<>>)
              ELSE <<cur>> \o SplitFrom(s, i + 1, <<>>)
         ELSE SplitFrom(s, i + 1, Append(cur, s[i]))

tokenize(s) == SplitFrom(s, 1, <<>>)

MinInt(a, b) == IF a < b THEN a ELSE b
MaxInt(a, b) == IF a < b THEN b ELSE a

\* tokens.slice(max(0, index - windowSize), min(tokens.length, index + windowSize + 1));
\* index counts from 0 as in the source
getContextWindow(tokens, index, windowSize) ==
    LET start == MaxInt(0, index - windowSize)
        end   == MinInt(Len(tokens), index + windowSize + 1)
    IN  SubSeq(tokens, start + 1, end)

\* 1.3 when some token of the window is a hate or harassment pattern, else 1.0
calculateContextMultiplier(m, context) ==
    LET negativeContext ==
            \E k \in 1..Len(context) :
                \/ Truthy(Lookup(m.hatePatterns, toLowerCase(context[k])))
                \/ Truthy(Lookup(m.harassmentPatterns, toLowerCase(context[k])))
    IN  IF negativeContext THEN Dec(13, 10) ELSE Dec(10, 10)

\* the radius of the attention window
WindowSize == 3

\* what the hate pattern at (0-based) index i adds to the hate score:
\* hatePatterns[token] * contextMultiplier
HateContribution(m, tokens, i) ==
    Times(Lookup(m.hatePatterns, toLowerCase(tokens[i + 1])),
          calculateContextMultiplier(m, getContextWindow(tokens, i, WindowSize)))

\* harassmentPatterns[token] * contextMultiplier
HarassmentContribution(m, tokens, i) ==
    Times(Lookup(m.harassmentPatterns, toLowerCase(tokens[i + 1])),
          calculateContextMultiplier(m, getContextWindow(tokens, i, WindowSize)))

\* one pass of the attention loop for the token at (0-based) index i:
\* acc is <<hateScore, harassmentScore, contextScore>>
TransformerStep(m, tokens, i, acc) ==
    LET token == toLowerCase(tokens[i + 1])
        hateW == Lookup(m.hatePatterns, token)
        harW  == Lookup(m.harassmentPatterns, token)
        posW  == Lookup(m.positivePatterns, token)
    IN  << IF Truthy(hateW) THEN Plus(acc[1], HateContribution(m, tokens, i)) ELSE acc[1],
           IF Truthy(harW)  THEN Plus(acc[2], HarassmentContribution(m, tokens, i)) ELSE acc[2],
           IF Truthy(posW)  THEN Plus(acc[3], Times(posW, Dec(5, 10))) ELSE acc[3] >>

RECURSIVE TransformerLoop(_, _, _, _)
TransformerLoop(m, tokens, i, acc) ==
    IF i >= Len(tokens) THEN acc
    ELSE TransformerLoop(m, tokens, i + 1, TransformerStep(m, tokens, i, acc))

transformerAnalysis(m, s) ==
    LET tokens == tokenize(s)
        sums   == TransformerLoop(m, tokens, 0, <<Zero, Zero, Zero>>)
        n      == Len(tokens)
    IN  [ hateScore       |-> MathMin(Times(DivBy(sums[1], n), Dec(2, 1)), One),
          harassmentScore |-> MathMin(Times(DivBy(sums[2], n), Dec(2, 1)), One),
          contextScore    |-> MathMin(DivBy(sums[3], n), One) ]

\* (hate || 0) + (harassment || 0) - (positive || 0)
getTokenWeight(m, token) ==
    Minus(Plus(OrElse(Lookup(m.hatePatterns, toLowerCase(token)), Zero),
               OrElse(Lookup(m.harassmentPatterns, toLowerCase(token)), Zero)),
          OrElse(Lookup(m.positivePatterns, toLowerCase(token)), Zero))

\* prevState * 0.7 + tokenWeight * 0.3
updateHiddenState(m, prevState, token) ==
    Plus(Times(prevState, Dec(7, 10)), Times(getTokenWeight(m, token), Dec(3, 10)))

getBigramHateScore(bigram) == OrElse(Lookup(bigramPatterns, bigram), Zero)

getEmotionalWeight(token) ==
    OrElse(Lookup(emotionalPatterns, toLowerCase(token)), Dec(1, 10))

\* one LSTM cell for the token at (0-based) index i:
\* acc is <<sequenceScore, emotionalIntensity, hiddenState>>
LstmStep(m, tokens, i, acc) ==
    LET token       == toLowerCase(tokens[i + 1])
        prevContext == acc[3]
        hiddenState == updateHiddenState(m, acc[3], token)
        bigram      == toLowerCase(tokens[i]) \o <<" ">> \o token
    IN  << IF i > 0 THEN Plus(acc[1], getBigramHateScore(bigram)) ELSE acc[1],
           Plus(acc[2], Times(getEmotionalWeight(token),
                              Plus(One, MathAbs(prevContext)))),
           hiddenState >>

RECURSIVE LstmLoop(_, _, _, _)
LstmLoop(m, tokens, i, acc) ==
    IF i >= Len(tokens) THEN acc
    ELSE LstmLoop(m, tokens, i + 1, LstmStep(m, tokens, i, acc))

lstmAnalysis(m, s) ==
    LET tokens == tokenize(s)
        sums   == LstmLoop(m, tokens, 0, <<Zero, Zero, Zero>>)
    IN  [ sequenceScore      |-> MathMin(DivBy(sums[1], MaxInt(Len(tokens) - 1, 1)), One),
          emotionalIntensity |-> MathMin(DivBy(sums[2], Len(tokens)), One) ]

getNgramHateScore(ngram) == OrElse(Lookup(obfuscatedPatterns, ngram), Zero)

\* the sum of getNgramHateScore over the n-grams starting at (0-based) i, i+1, ...
RECURSIVE NgramSum(_, _, _)
NgramSum(s, n, i) ==
    IF i > Len(s) - n THEN Zero
    ELSE Plus(getNgramHateScore(toLowerCase(SubSeq(s, i + 1, i + n))),
              NgramSum(s, n, i + 1))

Digits == {"0", "1", "2", "3", "4", "5", "6", "7", "8", "9"}

\* the class [0-9@#*]
LeetChars == Digits \cup {"@", "#", "*"}

\* the class [!@#$%^&*()_+=\[\]{}|;':".,<>?~`]
SymbolChars == {"!", "@", "#", "$", "%", "^", "&", "*", "(", ")", "_", "+", "=",
                "[", "]", "{", "}", "|", ";", "'", ":", "\"", ".", ",", "<", ">",
                "?", "~", "u0060"}

\* the code units "." does not match
LineTerminators == {"\n", "\r", "u2028", "u2029"}

\* text.match(/[0-9@#*]+/g): one match per maximal run
LeetMatches(s) ==
    Cardinality({i \in 1..Len(s) :
        s[i] \in LeetChars /\ (i = 1 \/ s[i - 1] \notin LeetChars)})

\* text.match(/[!@#$...]/g): one match per symbol
SymbolMatches(s) == Cardinality({i \in 1..Len(s) : s[i] \in SymbolChars})

\* text.match(/(.)\1{2,}/g): one match per maximal run of three or more
\* equal code units
RepeatedMatches(s) ==
    Cardinality({i \in 1..(Len(s) - 2) :
        /\ s[i] \notin LineTerminators
        /\ s[i + 1] = s[i]
        /\ s[i + 2] = s[i]
        /\ (i = 1 \/ s[i - 1] # s[i])})

detectEncodedHate(s) ==
    Plus(Plus(Times(<<LeetMatches(s), 1>>, Dec(1, 10)),
              Times(<<SymbolMatches(s), 1>>, Dec(5, 100))),
         Times(<<RepeatedMatches(s), 1>>, Dec(15, 100)))

fastTextAnalysis(s) ==
    LET subwordScore == Plus(Plus(NgramSum(s, 2, 0), NgramSum(s, 3, 0)), NgramSum(s, 4, 0))
    IN  [ subwordScore  |-> MathMin(DivBy(subwordScore, MaxInt(Len(s) - 1, 1)), One),
          encodingScore |-> MathMin(detectEncodedHate(s), One) ]

(***************************************************************************)
(* The product of two scores, kept as its two non-negative factors: the    *)
(* exact product of two fractions does not fit a 32-bit numerator.         *)
(***************************************************************************)
Product(a, b) == [x |-> a, y |-> b]

ProductIsNum(p) == IsNum(p.x) /\ IsNum(p.y)

\* 1 / a for a > 0
Inverse(a) == <<a[2], a[1]>>

\* p > c, for a fraction c
ProductGreater(p, c) ==
    /\ ProductIsNum(p)
    /\ IsNum(c)
    /\ CASE p.x[1] = 0 \/ p.y[1] = 0 -> Less(c, Zero)
         [] p.x[1] > 0 /\ p.y[1] > 0 -> Less(Times(c, Inverse(p.y)), p.x)

\* p < c, for a fraction c
ProductLess(p, c) ==
    /\ ProductIsNum(p)
    /\ IsNum(c)
    /\ CASE p.x[1] = 0 \/ p.y[1] = 0 -> Less(Zero, c)
         [] p.x[1] > 0 /\ p.y[1] > 0 -> Less(p.x, Times(c, Inverse(p.y)))

\* Math.min(p, 1)
ProductMinOne(p) ==
    IF ~ProductIsNum(p) THEN Product(NaN, NaN)
    ELSE IF ProductGreater(p, One) THEN Product(One, One)
    ELSE p

\* p * 100
ProductTimes100(p) == Product(p.x, Times(p.y, <<100, 1>>))

ProductInUnit(p) == ProductIsNum(p) /\ ~ProductLess(p, Zero) /\ ~ProductGreater(p, One)

\* a mutation: the four scores weigh the same
WeightedHateScoreEqualWeights(transformerResult, lstmResult, fastTextResult) ==
    Plus(Plus(Plus(Times(transformerResult.hateScore, Dec(25, 100)),
                   Times(lstmResult.sequenceScore, Dec(25, 100))),
              Times(fastTextResult.subwordScore, Dec(25, 100))),
         Times(fastTextResult.encodingScore, Dec(25, 100)))

\* Ensemble method: weighted combination of all models
WeightedHateScore(transformerResult, lstmResult, fastTextResult) ==
    Plus(Plus(Plus(Times(transformerResult.hateScore, Dec(4, 10)),
                   Times(lstmResult.sequenceScore, Dec(3, 10))),
              Times(fastTextResult.subwordScore, Dec(2, 10))),
         Times(fastTextResult.encodingScore, Dec(1, 10)))

WeightedHarassmentScore(transformerResult, lstmResult, fastTextResult) ==
    Plus(Plus(Times(transformerResult.harassmentScore, Dec(4, 10)),
              Times(lstmResult.emotionalIntensity, Dec(3, 10))),
         Times(Times(fastTextResult.subwordScore, Dec(5, 10)), Dec(3, 10)))

\* the part of analyze after the three models have run
Ensemble(transformerResult, lstmResult, fastTextResult) ==
    LET hateScore == WeightedHateScore(transformerResult, lstmResult, fastTextResult)
        harassmentScore ==
            WeightedHarassmentScore(transformerResult, lstmResult, fastTextResult)
        normalScore ==
            MathMax(Zero,
                    Plus(Minus(Minus(One, hateScore), harassmentScore),
                         Times(transformerResult.contextScore, Dec(2, 10))))
        modelAgreement ==
            Minus(One, MathAbs(Minus(transformerResult.hateScore, lstmResult.sequenceScore)))
        confidenceScore ==
            ProductMinOne(Product(MathMax(MathMax(hateScore, harassmentScore), normalScore),
                                  modelAgreement))
    IN  [ hateScore       |-> MathMin(hateScore, One),
          harassmentScore |-> MathMin(harassmentScore, One),
          normalScore     |-> MathMin(normalScore, One),
          confidenceScore |-> confidenceScore ]

\* Main analysis method combining all models
analyze(m, s) ==
    LET transformerResult == transformerAnalysis(m, s)
        lstmResult        == lstmAnalysis(m, s)
        fastTextResult    == fastTextAnalysis(s)
    IN  Ensemble(transformerResult, lstmResult, fastTextResult)

\* a mutation: analyze learns, entering the tokens it has seen in hatePatterns
ModelAfterAnalyzeLearning(m, s) ==
    LET tokens == tokenize(toLowerCase(s))
        seen   == { tokens[k] : k \in 1..Len(tokens) } \ DOMAIN m.hatePatterns
    IN  [m EXCEPT !.hatePatterns = [t \in seen |-> Dec(5, 10)] @@ @]

\* analyze assigns to no field of the instance: the instance after a call
ModelAfterAnalyze(m, s) == m

(***************************************************************************)
(* Ensemble runs: the combination of analyze applied to outputs of the     *)
(* three models drawn from a grid over [0, 1]                              *)
(***************************************************************************)
GridSteps == 2

\* the outputs, in units of 1/GridSteps
ScorerOutputs ==
    [ hate : 0..GridSteps, harassment : 0..GridSteps, context : 0..GridSteps,
      sequence : 0..GridSteps, intensity : 0..GridSteps,
      subword : 0..GridSteps, encoding : 0..GridSteps ]

NoOutputs == [ hate |-> 0, harassment |-> 0, context |-> 0, sequence |-> 0,
               intensity |-> 0, subword |-> 0, encoding |-> 0 ]

TransformerOutput(o) ==
    [ hateScore       |-> Dec(o.hate, GridSteps),
      harassmentScore |-> Dec(o.harassment, GridSteps),
      contextScore    |-> Dec(o.context, GridSteps) ]

LstmOutput(o) ==
    [ sequenceScore      |-> Dec(o.sequence, GridSteps),
      emotionalIntensity |-> Dec(o.intensity, GridSteps) ]

FastTextOutput(o) ==
    [ subwordScore  |-> Dec(o.subword, GridSteps),
      encodingScore |-> Dec(o.encoding, GridSteps) ]

IdleEnsemble == outputs = NoOutputs /\ combined = <<>>

\* lines 283-308 of analyze on the given outputs
Combine ==
    /\ combined = <<>>
    /\ combined' = << Ensemble(TransformerOutput(outputs), LstmOutput(outputs),
                               FastTextOutput(outputs)) >>
    /\ UNCHANGED outputs

(***************************************************************************)
(* The inputs of the engine runs: texts of fewer than MaxWords words from  *)
(* a small vocabulary and of MaxWords words from its core, joined by       *)
(* single spaces, and blank texts.                                         *)
(***************************************************************************)
MaxWords == 2

W_stupid      == <<"s", "t", "u", "p", "i", "d">>
W_Stupid      == <<"S", "t", "u", "p", "i", "d">>
W_stAtpid     == <<"s", "t", "@", "p", "i", "d">>
W_stuZwjPid   == <<"s", "t", "u", "u200D", "p", "i", "d">>
W_muu         == <<"u0DB8", "u0DD6">>
W_balla       == <<"u0DB6", "u0DBD", "u0DCA", "u0DBD", "u0DCF">>
W_you         == <<"y", "o", "u">>
W_good        == <<"g", "o", "o", "d">>
W_ugly        == <<"u", "g", "l", "y">>
W_wtf         == <<"w", "t", "f">>
W_constructor == <<"c", "o", "n", "s", "t", "r", "u", "c", "t", "o", "r">>

Vocabulary == { W_stupid, W_Stupid, W_stAtpid, W_stuZwjPid, W_muu, W_balla,
                W_you, W_good, W_ugly, W_wtf, W_constructor }

RECURSIVE JoinWords(_)
JoinWords(ws) ==
    IF ws = <<>> THEN <<>>
    ELSE IF Len(ws) = 1 THEN ws[1]
    ELSE ws[1] \o <<" ">> \o JoinWords(Tail(ws))

\* the words of the longest texts
CoreVocabulary == { W_stupid, W_muu, W_balla, W_you, W_good, W_ugly }

WordSeqs ==
    UNION { [1..n -> IF n < MaxWords THEN Vocabulary ELSE CoreVocabulary] :
                n \in 0..MaxWords }

EmptyText == <<>>
BlankTexts == { <<" ">>, <<" ", " ", " ">> }

\* the text of the scenario "multiple direct hate terms"
MultipleHateTerms == JoinWords(<<W_muu, W_balla, W_stupid>>)

ScenarioTexts == { MultipleHateTerms }

Texts == { JoinWords(ws) : ws \in WordSeqs } \cup BlankTexts \cup ScenarioTexts

\* the texts of the calls made between two calls on the text under analysis
OtherTexts == { W_stupid, W_good, JoinWords(<<W_muu, W_balla>>) }

MaxCalls  == 2
MaxOthers == 1

InitModel ==
    mlModel = [ hatePatterns       |-> hatePatterns,
                harassmentPatterns |-> harassmentPatterns,
                positivePatterns   |-> positivePatterns ]

\* a call of analyze on the text under analysis
Analyze ==
    /\ Len(results) < MaxCalls
    /\ results' = Append(results, analyze(mlModel, text))
    /\ mlModel' = ModelAfterAnalyze(mlModel, text)
    /\ UNCHANGED <<text, others>>

\* a call of analyze on another text, its result dropped; others records
\* how many calls on the text under analysis came before it
AnalyzeOther ==
    /\ Len(others) < MaxOthers
    /\ \E t \in OtherTexts :
        /\ t # text
        /\ mlModel' = ModelAfterAnalyze(mlModel, t)
    /\ others' = Append(others, Len(results))
    /\ UNCHANGED <<text, results>>

(***************************************************************************)
(* MemStorage.createContentAnalysis                                        *)
(***************************************************************************)

\* a mutation: the thresholds compared with >= instead of >
ClassifyInclusive(hateScore, harassmentScore) ==
    IF ~Less(hateScore, Dec(6, 10)) /\ IsNum(hateScore) THEN "hate_speech"
    ELSE IF \/ ~Less(hateScore, Dec(4, 10)) /\ IsNum(hateScore)
            \/ ~Less(harassmentScore, Dec(5, 10)) /\ IsNum(harassmentScore)
         THEN "flagged"
         ELSE "safe"

\* hateScore > 0.6: hate_speech; else hateScore > 0.4 or harassmentScore > 0.5:
\* flagged; else safe
Classify(hateScore, harassmentScore) ==
    IF Greater(hateScore, Dec(6, 10)) THEN "hate_speech"
    ELSE IF Greater(hateScore, Dec(4, 10)) \/ Greater(harassmentScore, Dec(5, 10))
         THEN "flagged"
         ELSE "safe"

\* classification === "hate_speech" && confidenceScore > 0.8
AutoHide(classification, confidenceScore) ==
    classification = "hate_speech" /\ ProductGreater(confidenceScore, Dec(8, 10))

\* { ...a, ...b }: the properties of b win
Spread(a, b) ==
    [k \in DOMAIN a \cup DOMAIN b |-> IF k \in DOMAIN b THEN b[k] ELSE a[k]]

\* the properties createContentAnalysis writes after ...analysis
ComputedFields(analysisResult) ==
    LET classification == Classify(analysisResult.hateScore, analysisResult.harassmentScore)
    IN  [ classification     |-> classification,
          confidenceScore    |-> ProductTimes100(analysisResult.confidenceScore),
          hateScore          |-> Times(analysisResult.hateScore, <<100, 1>>),
          harassmentScore    |-> Times(analysisResult.harassmentScore, <<100, 1>>),
          normalScore        |-> Times(analysisResult.normalScore, <<100, 1>>),
          isAutoHidden       |-> AutoHide(classification, analysisResult.confidenceScore),
          isManuallyReviewed |-> FALSE,
          reviewStatus       |-> IF classification = "flagged" THEN "pending" ELSE "null",
          reviewedBy         |-> "null" ]

\* a mutation: the caller's properties are spread last and win
BuildContentAnalysisSpreadLast(id, analysis, analysisResult) ==
    Spread(Spread([id |-> id], ComputedFields(analysisResult)), analysis)

\* { id, ...analysis, classification, confidenceScore, ..., reviewedBy }
BuildContentAnalysis(id, analysis, analysisResult) ==
    Spread(Spread([id |-> id], analysis), ComputedFields(analysisResult))

\* a mutation: only confident hate speech is queued for review
NeedsReviewHateSpeechOnly(classification, confidenceScore) ==
    classification = "hate_speech" /\ ProductGreater(confidenceScore, Dec(7, 10))

\* classification === "flagged" || (classification === "hate_speech" && confidenceScore > 0.7)
NeedsReview(classification, confidenceScore) ==
    \/ classification = "flagged"
    \/ classification = "hate_speech" /\ ProductGreater(confidenceScore, Dec(7, 10))

(***************************************************************************)
(* Policy runs: createContentAnalysis's record for a synthetic scorer      *)
(* output (scores in hundredths) and a caller's analysis data.             *)
(***************************************************************************)
HateGrid       == {0, 40, 41, 60, 61, 100}
HarassmentGrid == {0, 50, 51, 100}
NormalGrid     == {0, 100}
ConfidenceGrid == {0, 70, 80, 81, 100}

SynthInputs ==
    [ hate : HateGrid, harassment : HarassmentGrid, normal : NormalGrid,
      confidence : ConfidenceGrid, callerAutoHidden : BOOLEAN,
      callerClassification : {"safe", "hate_speech"} ]

NoSynth == [ hate |-> 0, harassment |-> 0, normal |-> 0, confidence |-> 0,
             callerAutoHidden |-> FALSE, callerClassification |-> "safe" ]

NoRecord == [ id |-> 0 ]

\* the scorer output the synthetic input stands for
SynthResult(y) ==
    [ hateScore       |-> Dec(y.hate, 100),
      harassmentScore |-> Dec(y.harassment, 100),
      normalScore     |-> Dec(y.normal, 100),
      confidenceScore |-> Product(Dec(y.confidence, 100), One) ]

\* the analysis data the route hands to createContentAnalysis
CallerData(content, classification, isAutoHidden) ==
    [ content        |-> content,
      classification |-> classification,
      isAutoHidden   |-> isAutoHidden ]

IdlePolicy == synth = NoSynth /\ built = NoRecord

BuildSynthetic ==
    /\ built = NoRecord
    /\ built' = BuildContentAnalysis(1, CallerData(W_you, synth.callerClassification,
                                                   synth.callerAutoHidden),
                                     SynthResult(synth))
    /\ UNCHANGED synth

IdleEngine == text = EmptyText /\ results = <<>> /\ others = <<>>
(***************************************************************************)
(* callMLBackend: the call of the Python service and the merge of its      *)
(* prediction with the fuzzy (lexical) matching it reports                 *)
(***************************************************************************)

\* Math.round
MathRound(a) ==
    IF ~IsNum(a) THEN NaN
    ELSE <<(2 * a[1] + a[2]) \div (2 * a[2]), 1>>

\* what the catch block of callMLBackend throws
ServiceUnavailable == [ message |-> "ML Backend service unavailable" ]

IsThrown(r) == "message" \in DOMAIN r

\* a mutation: an OFF prediction alone yields hate_speech
MergeOFFLearnedAlone(hate_words_detected, fuzzy_confidence, confidence) ==
    [ classification  |-> "hate_speech",
      harassmentScore |-> MathMax(Times(confidence, <<90, 1>>),
                                  Times(fuzzy_confidence, <<100, 1>>)),
      normalScore     |-> Times(Minus(One, confidence), <<100, 1>>) ]

\* prediction === 'OFF'
MergeOFF(hate_words_detected, fuzzy_confidence, confidence) ==
    IF hate_words_detected /\ Greater(fuzzy_confidence, Dec(7, 10))
    THEN [ classification  |-> "hate_speech",
           harassmentScore |-> MathMax(Times(confidence, <<90, 1>>),
                                       Times(fuzzy_confidence, <<100, 1>>)),
           normalScore     |-> Times(Minus(One, confidence), <<100, 1>>) ]
    ELSE [ classification  |-> "flagged",
           harassmentScore |-> Times(confidence, <<80, 1>>),
           normalScore     |-> Times(Minus(One, confidence), <<100, 1>>) ]

\* a mutation: only a fuzzy confidence above 0.8 overrides a NOT prediction
MergeNOTHighOnly(hate_words_detected, fuzzy_confidence, confidence) ==
    IF hate_words_detected /\ Greater(fuzzy_confidence, Dec(8, 10))
    THEN [ classification  |-> "flagged",
           harassmentScore |-> Times(fuzzy_confidence, <<70, 1>>),
           normalScore     |-> Times(Minus(One, fuzzy_confidence), <<100, 1>>) ]
    ELSE [ classification  |-> "safe",
           harassmentScore |-> Times(Minus(One, confidence), <<100, 1>>),
           normalScore     |-> Times(confidence, <<100, 1>>) ]

\* prediction === 'NOT'
MergeNOT(hate_words_detected, fuzzy_confidence, confidence) ==
    IF hate_words_detected /\ Greater(fuzzy_confidence, Dec(8, 10))
    THEN [ classification  |-> "flagged",
           harassmentScore |-> Times(fuzzy_confidence, <<70, 1>>),
           normalScore     |-> Times(Minus(One, fuzzy_confidence), <<100, 1>>) ]
    ELSE IF hate_words_detected /\ Greater(fuzzy_confidence, Dec(6, 10))
    THEN [ classification  |-> "flagged",
           harassmentScore |-> Times(fuzzy_confidence, <<60, 1>>),
           normalScore     |-> Times(Minus(One, fuzzy_confidence), <<100, 1>>) ]
    ELSE [ classification  |-> "safe",
           harassmentScore |-> Times(Minus(One, confidence), <<100, 1>>),
           normalScore     |-> Times(confidence, <<100, 1>>) ]

\* the fallback for unknown predictions
MergeUnknown(confidence) ==
    [ classification  |-> "flagged",
      harassmentScore |-> Times(confidence, <<100, 1>>),
      normalScore     |-> Times(Minus(One, confidence), <<100, 1>>) ]

\* `[Content flagged as ${classification}]`
FlaggedNotice(classification) == <<"[Content flagged as ", classification, "]">>

\* The outcome of callMLBackend(content) when the fetch settles with reply:
\* reply.settled is "rejected" (no connection) or "fulfilled"; a fulfilled
\* reply has ok (the HTTP status is 2xx) and the fields of the JSON body,
\* a missing field being Undefined and hate_words_found holding the
\* array's length, -1 when the array is missing; detection_details is the
\* match list of the service's fuzzy matcher.
callMLBackend(content, reply) ==
    IF \/ reply.settled = "rejected"
       \/ ~reply.ok
       \/ reply.error
       \/ ~reply.has_analysis
    THEN ServiceUnavailable
    ELSE
    LET prediction          == reply.prediction
        confidence          == reply.confidence
        hateScore           == Times(OrElse(reply.hate_score, Zero), <<100, 1>>)
        fuzzy_confidence    == OrElse(reply.fuzzy_confidence, Zero)
        hate_words_detected == reply.hate_words_found > 0
        merge ==
            IF prediction = "OFF"
            THEN MergeOFF(hate_words_detected, fuzzy_confidence, confidence)
            ELSE IF prediction = "NOT"
            THEN MergeNOT(hate_words_detected, fuzzy_confidence, confidence)
            ELSE MergeUnknown(confidence)
    IN  [ classification  |-> merge.classification,
          hateScore       |-> MathRound(hateScore),
          harassmentScore |-> MathRound(merge.harassmentScore),
          normalScore     |-> MathRound(merge.normalScore),
          confidenceScore |-> MathRound(Times(confidence, <<100, 1>>)),
          isHateSpeech    |-> merge.classification = "hate_speech",
          neutralizedText |-> IF merge.classification # "safe"
                              THEN FlaggedNotice(merge.classification)
                              ELSE content,
          analysis        |->
              [ hateScore      |-> OrElse(reply.hate_score, Zero),
                hateWordsFound |-> MaxInt(reply.hate_words_found, 0),
                modelsUsed     |-> [ lstm |-> reply.models_used_lstm ] ] ]

(***************************************************************************)
(* Merge runs: callMLBackend on a grid of replies                          *)
(***************************************************************************)
Rejected == [ settled |-> "rejected" ]

JsonReplies ==
    [ settled          : {"fulfilled"},
      ok               : {TRUE},
      error            : {FALSE},
      has_analysis     : {TRUE},
      prediction       : {"OFF", "NOT", "MAYBE"},
      confidence       : {Dec(0, 100), Dec(55, 100), Dec(100, 100)},
      hate_score       : {Undefined, Dec(70, 100)},
      fuzzy_confidence : {Undefined, Dec(0, 100), Dec(60, 100), Dec(61, 100),
                          Dec(70, 100), Dec(71, 100), Dec(80, 100),
                          Dec(81, 100), Dec(100, 100)},
      hate_words_found : {-1, 0, 1},
      models_used_lstm : BOOLEAN,
      detection_details : {<<>>} ]

\* an entry of detection_details: the lexicon term matched exactly
ExactMatch(word) ==
    [ word |-> word, matched_text |-> word, match_type |-> "exact", similarity |-> One ]

\* a reply the service sends when it works
SomeJsonReply ==
    [ settled |-> "fulfilled", ok |-> TRUE, error |-> FALSE, has_analysis |-> TRUE,
      prediction |-> "OFF", confidence |-> Dec(90, 100), hate_score |-> Dec(70, 100),
      fuzzy_confidence |-> Dec(90, 100), hate_words_found |-> 1,
      models_used_lstm |-> TRUE,
      detection_details |-> << ExactMatch(W_stupid) >> ]

\* replies on which callMLBackend throws: an HTTP error status, an error
\* payload, a body without analysis
FailedReplies ==
    { [SomeJsonReply EXCEPT !.ok = FALSE],
      [SomeJsonReply EXCEPT !.error = TRUE],
      [SomeJsonReply EXCEPT !.has_analysis = FALSE] }

Replies == {Rejected} \cup FailedReplies \cup JsonReplies

NoReply  == [ settled |-> "pending" ]
NoResult == [ classification |-> "none" ]

IdleMerge == payload = NoReply /\ merged = NoResult

CallMLBackend ==
    /\ merged = NoResult
    /\ merged' = callMLBackend(W_you, payload)
    /\ UNCHANGED payload

(***************************************************************************)
(* The server: POST /api/analyze and the moderation routes over MemStorage *)
(***************************************************************************)

\* the stats the constructor of MemStorage starts from
InitialTotalAnalyzed == 24847
InitialHateDetected  == 1234
InitialAutoHidden    == 892

NoRequest  == [ state |-> "idle" ]
NoResponse == [ route |-> "none" ]
NoDecision == [ route |-> "none" ]

\* the storage after construction, no request received
InitServer ==
    /\ contentAnalyses = <<>>
    /\ moderationQueues = <<>>
    /\ systemStats = [ totalAnalyzed |-> InitialTotalAnalyzed,
                       hateDetected  |-> InitialHateDetected,
                       autoHidden    |-> InitialAutoHidden ]
    /\ nextId = 1
    /\ received = 0
    /\ req = NoRequest
    /\ response = NoResponse
    /\ forwarded = {}
    /\ decision = NoDecision

IdleServer == InitServer

\* { ...validatedData, classification: mlResult.classification, ... }
AnalysisData(validatedData, mlResult) ==
    Spread(validatedData,
           [ classification  |-> mlResult.classification,
             hateScore       |-> mlResult.hateScore,
             harassmentScore |-> mlResult.harassmentScore,
             normalScore     |-> mlResult.normalScore,
             isAutoHidden    |-> mlResult.classification = "hate_speech",
             confidenceScore |-> Product(mlResult.confidenceScore, One) ])

\* { id, ...item, status: "pending", assignedTo: null }
createModerationQueueItem(id, item) ==
    Spread(Spread([id |-> id], item), [ status |-> "pending", assignedTo |-> "null" ])

\* createContentAnalysis(analysis) with id the fresh UUID of the record: the
\* record is stored (and returned: it is the last of contentAnalyses'), the
\* stats are counted up, and a queue item is created when the content needs
\* review
createContentAnalysis(id, analysis) ==
    \E analysisResult \in { analyze(mlModel, analysis.content) } :
    \E classification \in { Classify(analysisResult.hateScore,
                                     analysisResult.harassmentScore) } :
    \E isAutoHidden \in { AutoHide(classification, analysisResult.confidenceScore) } :
    \E queued \in { NeedsReview(classification, analysisResult.confidenceScore) } :
        /\ mlModel' = ModelAfterAnalyze(mlModel, analysis.content)
        /\ contentAnalyses' =
              Append(contentAnalyses, BuildContentAnalysis(id, analysis, analysisResult))
        /\ systemStats' =
              [ totalAnalyzed |-> systemStats.totalAnalyzed + 1,
                hateDetected  |-> systemStats.hateDetected
                                  + (IF classification \in {"hate_speech", "flagged"}
                                     THEN 1 ELSE 0),
                autoHidden    |-> systemStats.autoHidden
                                  + (IF isAutoHidden THEN 1 ELSE 0) ]
        /\ moderationQueues' =
              IF queued
              THEN Append(moderationQueues,
                          createModerationQueueItem(id + 1,
                              [ contentId |-> id,
                                priority  |-> IF classification = "hate_speech"
                                              THEN "high" ELSE "medium" ]))
              ELSE moderationQueues
        /\ nextId' = IF queued THEN id + 2 ELSE id + 1

\* mlResult.analysis.detection_details || []: the object callMLBackend
\* builds has the properties hateScore, hateWordsFound and modelsUsed only
DetectionDetails(analysis) ==
    IF "detection_details" \in DOMAIN analysis THEN analysis.detection_details ELSE <<>>

\* the JSON body POST /api/analyze answers with
ResponseBody(analysis, mlResult) ==
    Spread(analysis,
           [ classification  |-> mlResult.classification,
             hateScore       |-> mlResult.hateScore,
             neutralizedText |-> mlResult.neutralizedText,
             isHateSpeech    |-> mlResult.isHateSpeech,
             analysis        |->
                 Spread(mlResult.analysis,
                        [ detection_details |-> DetectionDetails(mlResult.analysis),
                          modelsUsed |->
                              Spread(mlResult.analysis.modelsUsed,
                                     [ fuzzy_word_matching         |-> TRUE,
                                       word_variation_generation   |-> TRUE,
                                       enhanced_singlish_detection |-> TRUE ]) ]) ])

\* the index of the item with this id in a Map's values, 0 when there is none
RECURSIVE IndexOf(_, _, _)
IndexOf(items, id, i) ==
    IF i > Len(items) THEN 0
    ELSE IF items[i].id = id THEN i
    ELSE IndexOf(items, id, i + 1)

\* { ...existing, ...updates }, stored under the same key
UpdateItem(items, id, updates) ==
    [items EXCEPT ![IndexOf(items, id, 1)] = Spread(@, updates)]

\* the rank of a priority in the comparator of getModerationQueue
priorityOrder(priority) ==
    CASE priority = "high"   -> 3
      [] priority = "medium" -> 2
      [] priority = "low"    -> 1

\* a mutation: the sort puts the lowest priority first
SortByPriorityLowFirst(items) ==
    SelectSeq(items, LAMBDA item : priorityOrder(item.priority) = 1)
        \o SelectSeq(items, LAMBDA item : priorityOrder(item.priority) = 2)
        \o SelectSeq(items, LAMBDA item : priorityOrder(item.priority) = 3)

\* Array.prototype.sort with the comparator priorityOrder[b] - priorityOrder[a]:
\* a stable sort, highest priority first
SortByPriority(items) ==
    SelectSeq(items, LAMBDA item : priorityOrder(item.priority) = 3)
        \o SelectSeq(items, LAMBDA item : priorityOrder(item.priority) = 2)
        \o SelectSeq(items, LAMBDA item : priorityOrder(item.priority) = 1)

\* getModerationQueue without its filter on the status
getModerationQueueUnfiltered(queue) == SortByPriority(queue)

\* getModerationQueue(): the pending items, highest priority first
getModerationQueue(queue) ==
    SortByPriority(SelectSeq(queue, LAMBDA item : item.status = "pending"))

\* getContentAnalysis(id) || null
getContentAnalysis(id) ==
    IF IndexOf(contentAnalyses, id, 1) = 0 THEN "null"
    ELSE contentAnalyses[IndexOf(contentAnalyses, id, 1)]

(***************************************************************************)
(* The requests of the server runs                                         *)
(***************************************************************************)
MaxRequests == 2

Contents == { EmptyText, W_stupid, W_you, JoinWords(<<W_muu, W_balla>>) }

NotOffensiveReply ==
    [ SomeJsonReply EXCEPT !.prediction = "NOT", !.hate_words_found = 0,
                           !.fuzzy_confidence = Zero, !.hate_score = Zero,
                           !.detection_details = <<>> ]

ServerReplies == {Rejected} \cup FailedReplies \cup {SomeJsonReply, NotOffensiveReply}

\* POST /api/analyze with a body the schema accepts: the handler runs up to
\* the await of fetch in callMLBackend
PostAnalyze ==
    /\ req.state \in {"idle", "done"}
    /\ received < MaxRequests
    /\ \E c \in Contents : req' = [ state |-> "fetching", content |-> c ]
    /\ received' = received + 1
    /\ UNCHANGED <<mlModel, contentAnalyses, moderationQueues, systemStats, nextId, response>>

\* POST /api/analyze with a body the schema rejects (no content): parse
\* throws and the catch block answers 400
PostAnalyzeInvalid ==
    /\ req.state \in {"idle", "done"}
    /\ received < MaxRequests
    /\ req' = [ state |-> "done", content |-> EmptyText, reply |-> NoReply ]
    /\ received' = received + 1
    /\ response' = [ route |-> "analyze", status |-> 400, message |-> "Required" ]
    /\ UNCHANGED <<mlModel, contentAnalyses, moderationQueues, systemStats, nextId>>

\* the environment: the Python service answers, or the connection fails,
\* and the promise of fetch settles
FetchSettles ==
    /\ req.state = "fetching"
    /\ \E r \in ServerReplies :
          req' = [ state |-> "settled", content |-> req.content, reply |-> r ]
    /\ UNCHANGED <<mlModel, contentAnalyses, moderationQueues, systemStats, nextId,
                   received, response>>

\* the rest of the handler of POST /api/analyze, after the await
CompleteAnalyze ==
    /\ req.state = "settled"
    /\ \E mlResult \in { callMLBackend(req.content, req.reply) } :
          IF IsThrown(mlResult)
          THEN /\ response' = [ route |-> "analyze", status |-> 400,
                                message |-> mlResult.message ]
               /\ UNCHANGED <<mlModel, contentAnalyses, moderationQueues,
                              systemStats, nextId>>
          ELSE /\ createContentAnalysis(nextId,
                                        AnalysisData([content |-> req.content], mlResult))
               /\ response' =
                     [ route |-> "analyze", status |-> 200,
                       body |-> ResponseBody(contentAnalyses'[Len(contentAnalyses')],
                                             mlResult) ]
    /\ req' = [ req EXCEPT !.state = "done" ]
    /\ UNCHANGED received

\* the ids a moderation request can name: those of the queue and one of no item
QueueIds == { moderationQueues[i].id : i \in 1..Len(moderationQueues) } \cup {0}

\* a mutation: a decision on an id of no item marks the oldest item reviewed
ReviewFallingBack(id, route, updates) ==
    /\ decision' = [ route |-> route, id |-> id ]
    /\ IF IndexOf(moderationQueues, id, 1) = 0 /\ moderationQueues = <<>>
       THEN /\ response' = [ route |-> route, status |-> 400,
                             message |-> "Moderation queue item not found" ]
            /\ UNCHANGED <<moderationQueues, contentAnalyses>>
       ELSE LET item == IF IndexOf(moderationQueues, id, 1) = 0
                        THEN moderationQueues[1]
                        ELSE moderationQueues[IndexOf(moderationQueues, id, 1)]
            IN  /\ moderationQueues' =
                      UpdateItem(moderationQueues, item.id, [ status |-> "reviewed" ])
                /\ contentAnalyses' = UpdateItem(contentAnalyses, item.contentId, updates)
                /\ response' = [ route |-> route, status |-> 200 ]
    /\ UNCHANGED <<mlModel, systemStats, nextId, received, req>>

\* PATCH /api/moderation-queue/:id/approve and .../remove
Review(id, route, updates) ==
    /\ decision' = [ route |-> route, id |-> id ]
    /\ IF IndexOf(moderationQueues, id, 1) = 0
       THEN /\ response' = [ route |-> route, status |-> 400,
                             message |-> "Moderation queue item not found" ]
            /\ UNCHANGED <<moderationQueues, contentAnalyses>>
       ELSE LET contentId == moderationQueues[IndexOf(moderationQueues, id, 1)].contentId
            IN  /\ moderationQueues' =
                      UpdateItem(moderationQueues, id, [ status |-> "reviewed" ])
                /\ contentAnalyses' = UpdateItem(contentAnalyses, contentId, updates)
                /\ response' = [ route |-> route, status |-> 200 ]
    /\ UNCHANGED <<mlModel, systemStats, nextId, received, req>>

Approve ==
    \E id \in QueueIds :
        Review(id, "approve", [ reviewStatus       |-> "approved",
                                isManuallyReviewed |-> TRUE,
                                reviewedBy         |-> "admin" ])

Remove ==
    \E id \in QueueIds :
        Review(id, "remove", [ reviewStatus       |-> "removed",
                               isManuallyReviewed |-> TRUE,
                               isAutoHidden       |-> TRUE,
                               reviewedBy         |-> "admin" ])

\* GET /api/moderation-queue: the items getModerationQueue returns, each with
\* the content it refers to
GetModerationQueue ==
    /\ response' =
          [ route |-> "moderation-queue", status |-> 200,
            body |-> [ k \in 1..Len(getModerationQueue(moderationQueues)) |->
                          Spread(getModerationQueue(moderationQueues)[k],
                                 [ content |-> getContentAnalysis(
                                       getModerationQueue(moderationQueues)[k].contentId) ]) ] ]
    /\ UNCHANGED <<mlModel, contentAnalyses, moderationQueues, systemStats, nextId,
                   received, req>>

\* the bodies of the POST /api/feedback requests: text and feedback_type may
\* be missing or empty, the term of the annotation may be empty
FeedbackBodies ==
    { Spread(Spread([ user_annotation     |-> annotation,
                      original_prediction |-> "NOT",
                      confidence          |-> Dec(9, 10) ],
                    [ f \in textFields |-> t ]),
             [ f \in typeFields |-> type ]) :
        annotation \in {EmptyText, W_balla},
        textFields \in {{}, {"text"}},
        t \in {EmptyText, W_stupid},
        typeFields \in {{}, {"feedback_type"}},
        type \in {"", "missed_hate", "false_positive"} }

\* !body[field] for a string property: it is missing or the empty string
\* (texts and terms are sequences of characters, a feedback_type is a name)
Not(body, field) ==
    \/ field \notin DOMAIN body
    \/ body[field] = (IF field = "feedback_type" THEN "" ELSE EmptyText)

\* what the ML backend does with a forwarded feedback: it answers with a
\* success status, with an error status, or the connection fails
FeedbackReplies ==
    { [ settled |-> "fulfilled", ok |-> TRUE,  status |-> 200 ],
      [ settled |-> "fulfilled", ok |-> FALSE, status |-> 400 ],
      Rejected }

\* POST /api/feedback
PostFeedback ==
    /\ received < MaxRequests
    /\ received' = received + 1
    /\ \E body \in FeedbackBodies :
          IF Not(body, "text") \/ Not(body, "feedback_type")
          THEN /\ response' = [ route |-> "feedback", status |-> 400,
                                message |-> "Text and feedback_type are required" ]
               /\ UNCHANGED forwarded
          ELSE /\ forwarded' = forwarded \cup {body}
               /\ \E mlResponse \in FeedbackReplies :
                     response' =
                        IF mlResponse.settled = "rejected"
                        THEN [ route |-> "feedback", status |-> 500,
                               message |-> "fetch failed" ]
                        ELSE IF ~mlResponse.ok
                        THEN [ route |-> "feedback", status |-> 500,
                               message |-> "ML Backend error" ]
                        ELSE [ route |-> "feedback", status |-> 200 ]
    /\ UNCHANGED <<mlModel, contentAnalyses, moderationQueues, systemStats, nextId, req>>

(***************************************************************************)
(* Storage runs: the methods of MemStorage on the moderation queue, called *)
(* with every priority, and the route that reads the queue                 *)
(***************************************************************************)
MaxItems == 3

Priorities == {"high", "medium", "low"}

\* storage.createModerationQueueItem({ contentId, priority })
CreateModerationQueueItem ==
    /\ Len(moderationQueues) < MaxItems
    /\ \E priority \in Priorities :
          moderationQueues' =
              Append(moderationQueues,
                     createModerationQueueItem(nextId, [ contentId |-> 0,
                                                         priority  |-> priority ]))
    /\ nextId' = nextId + 1
    /\ UNCHANGED <<mlModel, contentAnalyses, systemStats, received, req, response, forwarded>>

\* storage.updateModerationQueueItem(id, { status: "reviewed" }) for an id of the queue
UpdateModerationQueueItem ==
    /\ \E k \in 1..Len(moderationQueues) :
          moderationQueues' =
              UpdateItem(moderationQueues, moderationQueues[k].id, [ status |-> "reviewed" ])
    /\ UNCHANGED <<mlModel, contentAnalyses, systemStats, nextId, received, req, response,
                   forwarded>>

(***************************************************************************)
(* Engine runs: analyze called on a text, repeatedly, with calls on other  *)
(* texts in between.                                                       *)
(***************************************************************************)
InitEngine ==
    /\ InitModel
    /\ text \in Texts /\ results = <<>> /\ others = <<>>
    /\ IdlePolicy /\ IdleMerge /\ IdleServer /\ IdleEnsemble

NextEngine ==
    \/ Analyze /\ UNCHANGED <<policyVars, mergeVars, serverVars, ensembleVars>>
    \/ AnalyzeOther /\ UNCHANGED <<policyVars, mergeVars, serverVars, ensembleVars>>

SpecEngine == InitEngine /\ [][NextEngine]_vars

(***************************************************************************)
(* Policy runs                                                             *)
(***************************************************************************)
InitPolicy ==
    /\ InitModel
    /\ synth \in SynthInputs /\ built = NoRecord
    /\ IdleEngine /\ IdleMerge /\ IdleServer /\ IdleEnsemble

NextPolicy ==
    BuildSynthetic /\ UNCHANGED <<mlModel, engineVars, mergeVars, serverVars, ensembleVars>>

SpecPolicy == InitPolicy /\ [][NextPolicy]_vars

(***************************************************************************)
(* Merge runs                                                              *)
(***************************************************************************)
InitMerge ==
    /\ InitModel
    /\ payload \in Replies /\ merged = NoResult
    /\ IdleEngine /\ IdlePolicy /\ IdleServer /\ IdleEnsemble

NextMerge ==
    CallMLBackend /\ UNCHANGED <<mlModel, engineVars, policyVars, serverVars, ensembleVars>>

SpecMerge == InitMerge /\ [][NextMerge]_vars

(***************************************************************************)
(* Ensemble runs                                                           *)
(***************************************************************************)
InitEnsemble ==
    /\ InitModel
    /\ outputs \in ScorerOutputs /\ combined = <<>>
    /\ IdleEngine /\ IdlePolicy /\ IdleMerge /\ IdleServer

NextEnsemble ==
    Combine /\ UNCHANGED <<mlModel, engineVars, policyVars, mergeVars, serverVars>>

SpecEnsemble == InitEnsemble /\ [][NextEnsemble]_vars

(***************************************************************************)
(* Storage runs                                                            *)
(***************************************************************************)
InitQueue ==
    /\ InitModel
    /\ InitServer
    /\ IdleEngine /\ IdlePolicy /\ IdleMerge /\ IdleEnsemble

NextQueue ==
    \/ CreateModerationQueueItem /\ UNCHANGED <<engineVars, policyVars, mergeVars, ensembleVars, decision>>
    \/ UpdateModerationQueueItem /\ UNCHANGED <<engineVars, policyVars, mergeVars, ensembleVars, decision>>
    \/ GetModerationQueue /\ UNCHANGED <<engineVars, policyVars, mergeVars, ensembleVars, forwarded, decision>>

SpecQueue == InitQueue /\ [][NextQueue]_vars

(***************************************************************************)
(* Server runs                                                             *)
(***************************************************************************)
Init ==
    /\ InitModel
    /\ InitServer
    /\ IdleEngine /\ IdlePolicy /\ IdleMerge /\ IdleEnsemble

Next ==
    \/ PostAnalyze        /\ UNCHANGED <<engineVars, policyVars, mergeVars, ensembleVars, forwarded, decision>>
    \/ PostAnalyzeInvalid /\ UNCHANGED <<engineVars, policyVars, mergeVars, ensembleVars, forwarded, decision>>
    \/ FetchSettles       /\ UNCHANGED <<engineVars, policyVars, mergeVars, ensembleVars, forwarded, decision>>
    \/ CompleteAnalyze    /\ UNCHANGED <<engineVars, policyVars, mergeVars, ensembleVars, forwarded, decision>>
    \/ Approve            /\ UNCHANGED <<engineVars, policyVars, mergeVars, ensembleVars, forwarded>>
    \/ Remove             /\ UNCHANGED <<engineVars, policyVars, mergeVars, ensembleVars, forwarded>>
    \/ GetModerationQueue /\ UNCHANGED <<engineVars, policyVars, mergeVars, ensembleVars, forwarded, decision>>
    \/ PostFeedback       /\ UNCHANGED <<engineVars, policyVars, mergeVars, ensembleVars, decision>>

Spec == Init /\ [][Next]_vars

\* a step of CompleteAnalyze, as seen on req
HandlerResumes ==
    /\ req.state = "settled"
    /\ req' = [ req EXCEPT !.state = "done" ]

\* the handler resumes once the promise it awaits has settled; nothing
\* obliges the Python service to answer, and no timer rejects the promise
FairSpec == Spec /\ WF_req(HandlerResumes)

(***************************************************************************)
(* Properties of the scoring engine (checked under SpecEngine)             *)
(***************************************************************************)

\* the four scores of one result of analyze
ScoresInUnit(r) ==
    /\ InUnit(r.hateScore)
    /\ InUnit(r.harassmentScore)
    /\ InUnit(r.normalScore)
    /\ ProductInUnit(r.confidenceScore)

ScoresAllZero(r) ==
    /\ r.hateScore = Zero
    /\ r.harassmentScore = Zero
    /\ r.normalScore = Zero
    /\ ProductIsNum(r.confidenceScore)
    /\ (r.confidenceScore.x = Zero \/ r.confidenceScore.y = Zero)

\* C1: for every text, the empty and the blank ones included, each of
\* hateScore, harassmentScore, normalScore and confidenceScore returned by
\* analyze is a defined number in the closed interval [0,1].
C1_ScoresInUnitInterval ==
    \A i \in 1..Len(results) : ScoresInUnit(results[i])

\* C1, restricted to texts with at least one token whose tokens are not
\* names of Object.prototype: there the four scores are in [0,1].
C1_ScoresInUnitForPlainTokens ==
    LET tokens == tokenize(toLowerCase(text))
    IN  (tokens # <<>> /\ \A k \in 1..Len(tokens) : tokens[k] \notin ProtoKeys)
            => \A i \in 1..Len(results) : ScoresInUnit(results[i])

\* C2: analyze("") returns a well-defined result whose four scores are all 0,
\* and the content is classified safe.
C2_EmptyTextAllZeroAndSafe ==
    (text = EmptyText /\ results # <<>>)
        => \A i \in 1..Len(results) :
              /\ ScoresAllZero(results[i])
              /\ Classify(results[i].hateScore, results[i].harassmentScore) = "safe"

IsWeighted(m, token) ==
    \/ Truthy(Lookup(m.hatePatterns, toLowerCase(token)))
    \/ Truthy(Lookup(m.harassmentPatterns, toLowerCase(token)))

\* C10: for two token sequences of equal length holding the same hate term
\* at the same position, the term's contribution to the transformer hate
\* score is strictly greater when another token within 3 positions carries
\* a hate or harassment weight than when every other token is neutral.
C10_ContextAmplifies ==
    LET tokens == tokenize(toLowerCase(text))
    IN  ( /\ results # <<>>
          /\ Len(tokens) = 2
          /\ IsNum(Lookup(mlModel.hatePatterns, tokens[1]))
          /\ IsWeighted(mlModel, tokens[2]) )
            => \A w \in Vocabulary :
                  ~IsWeighted(mlModel, w)
                      => Greater(HateContribution(mlModel, tokens, 0),
                                 HateContribution(mlModel, <<tokens[1], w>>, 0))

(***************************************************************************)
(* Properties of createContentAnalysis's decisions (checked under          *)
(* SpecPolicy, scores in hundredths)                                       *)
(***************************************************************************)

\* C4: classification is decided from the scores by ordered, strictly
\* greater-than thresholds: hateScore > 0.6 gives hate_speech; otherwise
\* hateScore > 0.4 or harassmentScore > 0.5 gives flagged; otherwise safe.
\* So 0.61 is hate_speech, 0.60 is not, and neither the other scores nor the
\* caller's classification matter.
C4_ClassificationThresholds ==
    built # NoRecord =>
        built.classification =
            IF synth.hate > 60 THEN "hate_speech"
            ELSE IF synth.hate > 40 \/ synth.harassment > 50 THEN "flagged"
            ELSE "safe"

\* C4 witness: hateScore = 0.61 recorded as hate_speech although the caller
\* said safe.
C4_Witness ==
    /\ built # NoRecord
    /\ synth.hate = 61
    /\ synth.callerClassification = "safe"
    /\ built.classification = "hate_speech"

\* C5: a record produced by createContentAnalysis has isAutoHidden = true
\* only when its classification is hate_speech and its stored confidence
\* score is above 80, whatever isAutoHidden value the caller passed.
C5_AutoHiddenOnlyConfidentHateSpeech ==
    (built # NoRecord /\ built.isAutoHidden)
        => /\ built.classification = "hate_speech"
           /\ ProductGreater(built.confidenceScore, <<80, 1>>)

\* C5 witness: the caller passed isAutoHidden = true for a hate_speech text of
\* confidence exactly 0.8, and the record is not hidden.
C5_Witness ==
    /\ built # NoRecord
    /\ synth.callerAutoHidden
    /\ synth.confidence = 80
    /\ built.classification = "hate_speech"
    /\ ~built.isAutoHidden

(***************************************************************************)
(* Properties of the merge in callMLBackend (checked under SpecMerge)      *)
(***************************************************************************)

\* the lexical signal of a reply: hate words were found
HateWordsFound(reply) == reply.hate_words_found > 0

\* C8: the merged result is hate_speech only if the learned model predicted
\* OFF and at least one hate word was detected with fuzzy confidence above
\* 0.7; an OFF prediction with no detected hate word yields flagged; a NOT
\* or unknown prediction never yields hate_speech.
C8_NoEscalationFromLearnedSignalAlone ==
    (merged # NoResult /\ ~IsThrown(merged)) =>
        /\ merged.classification = "hate_speech" =>
              /\ payload.prediction = "OFF"
              /\ HateWordsFound(payload)
              /\ Greater(payload.fuzzy_confidence, Dec(7, 10))
        /\ (payload.prediction = "OFF" /\ ~HateWordsFound(payload)) =>
              merged.classification = "flagged"
        /\ payload.prediction # "OFF" => merged.classification # "hate_speech"

\* C8 witness: an OFF prediction of confidence 1 without a detected hate
\* word, merged to flagged.
C8_Witness ==
    /\ merged # NoResult /\ ~IsThrown(merged)
    /\ payload.prediction = "OFF"
    /\ payload.confidence = One
    /\ ~HateWordsFound(payload)
    /\ merged.classification = "flagged"

\* C9: when the learned model predicts NOT but hate words were detected with
\* fuzzy confidence >= 0.8, the merged classification is not safe, also at
\* fuzzy confidence 0.8 exactly.
C9_LexicalOverridesNotOffensive ==
    ( /\ merged # NoResult /\ ~IsThrown(merged)
      /\ payload.prediction = "NOT"
      /\ HateWordsFound(payload)
      /\ IsNum(payload.fuzzy_confidence)
      /\ ~Less(payload.fuzzy_confidence, Dec(8, 10)) )
        => merged.classification # "safe"

\* C9 witness: NOT, a hate word found, fuzzy confidence exactly 0.8, merged
\* to flagged.
C9_Witness ==
    /\ merged # NoResult /\ ~IsThrown(merged)
    /\ payload.prediction = "NOT"
    /\ HateWordsFound(payload)
    /\ payload.fuzzy_confidence = Dec(8, 10)
    /\ merged.classification = "flagged"

(***************************************************************************)
(* Properties of POST /api/analyze (checked under Spec and FairSpec)       *)
(***************************************************************************)

\* the last POST /api/analyze is done and its call of the ML backend failed:
\* no connection, a non-OK status or an error payload
MLCallFailed ==
    /\ req.state = "done"
    /\ req.reply # NoReply
    /\ IsThrown(callMLBackend(req.content, req.reply))

\* C6: when the call of the ML backend fails, POST /api/analyze still answers
\* with a complete analysis result (classification and scores) instead of an
\* error response, and the result says the learned signal was not used.
C6_GracefulDegradation ==
    (response.route = "analyze" /\ MLCallFailed) =>
        /\ response.status = 200
        /\ { "classification", "hateScore", "harassmentScore", "normalScore",
             "confidenceScore" } \subseteq DOMAIN response.body
        /\ ~response.body.analysis.modelsUsed.lstm

\* C7: every POST /api/analyze request eventually receives a response, even
\* if the ML backend never answers.
C7_EveryRequestAnswered ==
    (req.state = "fetching") ~> (req.state = "done")

(***************************************************************************)
(* Properties of the scorers and of the scenarios (checked under           *)
(* SpecEngine)                                                             *)
(***************************************************************************)

\* C11: fastTextAnalysis gives the obfuscated text "st@pid" an encodingScore
\* above 0 and a subwordScore strictly higher than that of the clean text
\* "stupid".
C11_ObfuscatedScoresHigherThanClean ==
    (text = W_stAtpid /\ results # <<>>) =>
        /\ Greater(fastTextAnalysis(text).encodingScore, Zero)
        /\ Greater(fastTextAnalysis(text).subwordScore,
                   fastTextAnalysis(W_stupid).subwordScore)

\* C12: for the three hate terms of scenario 2 separated by single spaces,
\* analyze returns hateScore > 0.6 and the content is classified
\* hate_speech.
C12_ThreeHateTermsAreHateSpeech ==
    (text = MultipleHateTerms /\ results # <<>>) =>
        \A i \in 1..Len(results) :
            /\ Greater(results[i].hateScore, Dec(6, 10))
            /\ Classify(results[i].hateScore, results[i].harassmentScore) = "hate_speech"

(***************************************************************************)
(* Properties of the stored record and of the response of POST             *)
(* /api/analyze (checked under Spec)                                       *)
(***************************************************************************)

\* the last POST /api/analyze is done and was answered with its analysis
AnalyzeAnswered ==
    /\ req.state = "done"
    /\ response.route = "analyze"
    /\ response.status = 200

\* the tokens of a content that are lexicon terms after case normalisation
LexiconTokens(content) ==
    LET tokens == tokenize(content)
    IN  { toLowerCase(tokens[k]) : k \in 1..Len(tokens) } \cap DOMAIN hatePatterns

\* the entries of a match list for a term
MatchesOf(details, term) ==
    { k \in 1..Len(details) : toLowerCase(details[k].word) = term }

\* C13: for every token equal (after case normalisation) to a lexicon term,
\* the result's match list reports a match for it with matchType exact and
\* similarity 1.0, and no fuzzy or variation match; stated for the requests
\* for which the service reported these exact matches.
C13_ExactMatchesReported ==
    AnalyzeAnswered =>
        \A term \in LexiconTokens(req.content) :
            MatchesOf(req.reply.detection_details, term) # {} =>
                LET details == response.body.analysis.detection_details
                IN  /\ MatchesOf(details, term) # {}
                    /\ \A k \in MatchesOf(details, term) :
                          /\ details[k].match_type = "exact"
                          /\ details[k].similarity = One

\* p = c, for a fraction c
ProductEquals(p, c) ==
    ProductIsNum(p) /\ IsNum(c) /\ ~ProductLess(p, c) /\ ~ProductGreater(p, c)

\* C14: the record POST /api/analyze persists carries the ML backend's
\* results: its classification, hateScore, harassmentScore, normalScore and
\* confidenceScore equal the values the route got from callMLBackend.
C14_StoredRecordHoldsBackendResults ==
    AnalyzeAnswered =>
        LET mlResult == callMLBackend(req.content, req.reply)
            stored   == contentAnalyses[Len(contentAnalyses)]
        IN  /\ stored.classification = mlResult.classification
            /\ stored.hateScore = mlResult.hateScore
            /\ stored.harassmentScore = mlResult.harassmentScore
            /\ stored.normalScore = mlResult.normalScore
            /\ ProductEquals(stored.confidenceScore, mlResult.confidenceScore)

(***************************************************************************)
(* Properties of the moderation workflow (checked under Spec)              *)
(***************************************************************************)

\* the queue items that refer to a content
ItemsOf(queue, contentId) ==
    { i \in 1..Len(queue) : queue[i].contentId = contentId }

\* C15: a content analysis that createContentAnalysis classifies as flagged
\* gets, in the same operation, exactly one moderation-queue item, with
\* status pending, priority medium and contentId the record's id, and the
\* record's reviewStatus is pending; a record classified safe gets no queue
\* item and reviewStatus null.
C15_FlaggedContentIsQueued ==
    [][ Len(contentAnalyses') = Len(contentAnalyses) + 1 =>
          LET rec == contentAnalyses'[Len(contentAnalyses')]
              new == moderationQueues'[Len(moderationQueues')]
          IN  /\ rec.classification = "flagged" =>
                    /\ rec.reviewStatus = "pending"
                    /\ Len(moderationQueues') = Len(moderationQueues) + 1
                    /\ moderationQueues' = Append(moderationQueues, new)
                    /\ ItemsOf(moderationQueues', rec.id) = { Len(moderationQueues') }
                    /\ new.status = "pending"
                    /\ new.priority = "medium"
              /\ rec.classification = "safe" =>
                    /\ rec.reviewStatus = "null"
                    /\ moderationQueues' = moderationQueues
                    /\ ItemsOf(moderationQueues', rec.id) = {}
      ]_vars

\* C15 witness: a flagged record, pending review, with its one queue item of
\* priority medium, beside a safe record without a queue item.
C15_Witness ==
    \E i, j \in 1..Len(contentAnalyses) :
        /\ contentAnalyses[i].classification = "flagged"
        /\ contentAnalyses[i].reviewStatus = "pending"
        /\ \E k \in ItemsOf(moderationQueues, contentAnalyses[i].id) :
              /\ moderationQueues[k].status = "pending"
              /\ moderationQueues[k].priority = "medium"
        /\ contentAnalyses[j].classification = "safe"
        /\ ItemsOf(moderationQueues, contentAnalyses[j].id) = {}

\* C16: after an approve of a queue item has succeeded, the referenced
\* content is visible again: its reviewStatus is approved, isManuallyReviewed
\* is true and isAutoHidden is false, also when the content was hidden at
\* creation or removed by an earlier decision.  reviewStatus is approved
\* exactly while the last decision on the content is an approve.
C16_ApprovedContentIsVisible ==
    \A i \in 1..Len(contentAnalyses) :
        contentAnalyses[i].reviewStatus = "approved" =>
            /\ contentAnalyses[i].isManuallyReviewed
            /\ ~contentAnalyses[i].isAutoHidden

\* the ids of the items of a list of queue items
IdsOf(items) == { items[k].id : k \in 1..Len(items) }

\* the ids of the queue items a decision has been taken on
Reviewed(queue) == { queue[k].id : k \in { j \in 1..Len(queue) : queue[j].status = "reviewed" } }

\* a step in which approve or remove answers with success
DecisionSucceeds ==
    /\ response'.route \in {"approve", "remove"}
    /\ response'.status = 200
    /\ <<response, moderationQueues, contentAnalyses>>' #
           <<response, moderationQueues, contentAnalyses>>

\* C17: once approve or remove has succeeded for a queue item, the item is
\* never again returned by getModerationQueue, whatever requests follow: a
\* successful decision leaves its item reviewed, a reviewed item stays
\* reviewed, and neither getModerationQueue nor the answer of
\* GET /api/moderation-queue holds a reviewed item.
C17_ReviewedItemsNeverReturned ==
    [][ /\ DecisionSucceeds =>
              /\ Reviewed(moderationQueues') # {}
              /\ Len(moderationQueues') = Len(moderationQueues)
              /\ \A k \in 1..Len(moderationQueues) :
                    moderationQueues'[k] # moderationQueues[k] =>
                        moderationQueues'[k].status = "reviewed"
        /\ Reviewed(moderationQueues) \subseteq Reviewed(moderationQueues')
        /\ IdsOf(getModerationQueue(moderationQueues')) \cap Reviewed(moderationQueues) = {}
        /\ (response'.route = "moderation-queue" /\ response' # response) =>
              IdsOf(response'.body) \cap Reviewed(moderationQueues) = {}
      ]_vars

\* a decision has been taken on an item, an analysis has been stored since the
\* item was queued, and the queue has been fetched with another item pending
C17_Witness ==
    /\ response.route = "moderation-queue"
    /\ Reviewed(moderationQueues) # {}
    /\ response.body # <<>>
    /\ \E k \in 1..Len(moderationQueues) :
          /\ moderationQueues[k].status = "reviewed"
          /\ \E j \in 1..Len(contentAnalyses) : contentAnalyses[j].id > moderationQueues[k].id

\* feedback the claim calls malformed: no text, no feedback_type, or a missed
\* hate word reported without the word
Malformed(body) ==
    \/ Not(body, "text")
    \/ Not(body, "feedback_type")
    \/ (body.feedback_type = "missed_hate" /\ Not(body, "user_annotation"))

\* C18: malformed feedback is rejected at the server: a POST /api/feedback
\* without text or feedback_type, or with feedback_type missed_hate and an
\* empty user_annotation, is not forwarded to the ML backend.
C18_MalformedFeedbackNotForwarded ==
    \A body \in forwarded : ~Malformed(body)

\* C19: for all outputs of the three models in [0, 1], hateScore is
\* 0.4 hate + 0.3 sequenceScore + 0.2 subwordScore + 0.1 encodingScore of
\* them and harassmentScore is 0.4 harassment + 0.3 emotionalIntensity +
\* 0.3 (0.5 subwordScore); in units of 1/GridSteps, the sums are
\* (4 hate + 3 sequence + 2 subword + encoding) / 10 and
\* (40 harassment + 30 intensity + 15 subword) / 100.
C19_EnsembleWeights ==
    combined # <<>> =>
        /\ combined[1].hateScore =
              Dec(4 * outputs.hate + 3 * outputs.sequence + 2 * outputs.subword
                      + outputs.encoding,
                  10 * GridSteps)
        /\ combined[1].harassmentScore =
              Dec(40 * outputs.harassment + 30 * outputs.intensity + 15 * outputs.subword,
                  100 * GridSteps)

\* the ensemble has combined outputs of which none is 0 and which differ
\* within each of the two sums
C19_Witness ==
    /\ combined # <<>>
    /\ outputs.hate # outputs.sequence
    /\ outputs.subword # outputs.encoding
    /\ outputs.hate # outputs.subword
    /\ outputs.harassment # outputs.intensity
    /\ \A f \in DOMAIN outputs : outputs[f] > 0

\* the number x brought into [0, 1]
Clamp01(x) == MathMin(MathMax(x, Zero), One)

\* C20: normalScore is 1 - hateScore - harassmentScore brought into [0, 1],
\* for every input: it depends on the returned hateScore and harassmentScore
\* only.  Stated for the results whose hateScore and harassmentScore are
\* numbers.
C20_NormalScoreIsComplement ==
    \A i \in 1..Len(results) :
        (IsNum(results[i].hateScore) /\ IsNum(results[i].harassmentScore)) =>
            results[i].normalScore =
                Clamp01(Minus(Minus(One, results[i].hateScore), results[i].harassmentScore))

\* the instance without its positive lexicon terms
WithoutPositiveTerms(m) == [m EXCEPT !.positivePatterns = [t \in {} |-> Zero]]

\* the positive-context offset the transformer pass accumulates for a text
PositiveOffset(m, s) == transformerAnalysis(m, s).contextScore

\* C21: the positive-context offset is subtracted from the final hate score,
\* floored at 0: a text with positive terms gets hateScore =
\* max(0, unreduced hate score - offset), the unreduced score being the one
\* the text gets without the positive lexicon terms.  Stated for the results
\* whose hateScore is a number.
C21_PositiveOffsetReducesHate ==
    \A i \in 1..Len(results) :
        (IsNum(results[i].hateScore) /\ Greater(PositiveOffset(mlModel, text), Zero)) =>
            results[i].hateScore =
                MathMax(Zero, Minus(analyze(WithoutPositiveTerms(mlModel), text).hateScore,
                                    PositiveOffset(mlModel, text)))

\* a text without its zero-width joiners and non-joiners
StripZeroWidth(s) == SelectSeq(s, LAMBDA c : c \notin {ZWNJ, ZWJ})

\* C22: tokenize separates tokens only at runs of whitespace: a zero-width
\* joiner or non-joiner inside a word is stripped and does not split the
\* word, so the tokens of a text are those of the text without its
\* zero-width characters; no token is empty and the empty text has no token.
C22_TokenizeSplitsAtWhitespaceOnly ==
    results # <<>> =>
        /\ tokenize(text) = tokenize(StripZeroWidth(text))
        /\ \A k \in 1..Len(tokenize(text)) : tokenize(text)[k] # <<>>
        /\ text = EmptyText => tokenize(text) = <<>>

\* hiddenState of lstmAnalysis after the first k tokens of a text
HiddenStateAfter(m, s, k) ==
    LstmLoop(m, SubSeq(tokenize(s), 1, k), 0, <<Zero, Zero, Zero>>)[3]

\* the tokenWeight of every term of the lexicon, and 0
LexiconWeights(m) ==
    { getTokenWeight(m, term) :
          term \in DOMAIN m.hatePatterns \cup DOMAIN m.harassmentPatterns
                       \cup DOMAIN m.positivePatterns } \cup {Zero}

\* x lies in the range spanned by the numbers of a set
InRangeOf(x, ws) ==
    /\ IsNum(x)
    /\ \E lo \in ws : IsNum(lo) /\ ~Less(x, lo)
    /\ \E hi \in ws : IsNum(hi) /\ ~Greater(x, hi)

\* C23: in the sequence scorer hiddenState starts at 0 and, updated once per
\* token as 0.7 hiddenState + 0.3 tokenWeight, stays after any number of
\* tokens within the range spanned by 0 and the smallest and largest
\* tokenWeight of the lexicon.
C23_HiddenStateBounded ==
    results # <<>> =>
        /\ HiddenStateAfter(mlModel, text, 0) = Zero
        /\ \A k \in 1..Len(tokenize(text)) :
              InRangeOf(HiddenStateAfter(mlModel, text, k), LexiconWeights(mlModel))

\* the position of the item with this id in the queue, in the order of insertion
EnqueuedAt(id) == IndexOf(moderationQueues, id, 1)

\* the ids of the pending items of the queue
PendingIds == { moderationQueues[k].id :
                    k \in { j \in 1..Len(moderationQueues) :
                                moderationQueues[j].status = "pending" } }

\* C24: getModerationQueue returns exactly the items whose status is pending,
\* each once, ordered by priority high before medium before low, items of
\* equal priority in the order they were enqueued; reviewed items are never
\* included.  Stated for the answer of every GET /api/moderation-queue.
C24_QueueIsPendingByPriority ==
    [][ (response'.route = "moderation-queue" /\ response' # response) =>
          LET body == response'.body
          IN  /\ IdsOf(body) = PendingIds
              /\ Len(body) = Cardinality(PendingIds)
              /\ \A k \in 1..Len(body) : body[k].status = "pending"
              /\ \A a, b \in 1..Len(body) :
                    a < b =>
                       \/ priorityOrder(body[a].priority) > priorityOrder(body[b].priority)
                       \/ /\ body[a].priority = body[b].priority
                          /\ EnqueuedAt(body[a].id) < EnqueuedAt(body[b].id)
      ]_vars

\* the queue has been read while it held a reviewed item and two pending
\* items of which the one enqueued later is returned first
C24_Witness ==
    /\ response.route = "moderation-queue"
    /\ IdsOf(response.body) = PendingIds
    /\ \E k \in 1..Len(moderationQueues) : moderationQueues[k].status = "reviewed"
    /\ \E a, b \in 1..Len(response.body) :
          /\ a < b
          /\ EnqueuedAt(response.body[a].id) > EnqueuedAt(response.body[b].id)

\* the number of stored records that satisfy a condition
CountRecords(Holds(_)) ==
    Cardinality({ k \in 1..Len(contentAnalyses) : Holds(contentAnalyses[k]) })

\* C25: the statistics stay consistent with the stored records after any
\* sequence of analyze, approve and remove: totalAnalyzed less its initial
\* value is the number of stored analyses, hateDetected less its initial
\* value the number classified flagged or hate_speech, and autoHidden less
\* its initial value the number of records whose isAutoHidden is true.
C25_StatsMatchRecords ==
    /\ systemStats.totalAnalyzed - InitialTotalAnalyzed = Len(contentAnalyses)
    /\ systemStats.hateDetected - InitialHateDetected =
          CountRecords(LAMBDA r : r.classification \in {"flagged", "hate_speech"})
    /\ systemStats.autoHidden - InitialAutoHidden =
          CountRecords(LAMBDA r : r.isAutoHidden)

\* C26: no hate_speech content escapes moderation: a record that
\* createContentAnalysis classifies as hate_speech is, right after its
\* creation, auto-hidden or referenced by a pending item of the moderation
\* queue, whatever its confidence score.
C26_HateSpeechIsHiddenOrQueued ==
    [][ Len(contentAnalyses') = Len(contentAnalyses) + 1 =>
          LET rec == contentAnalyses'[Len(contentAnalyses')]
          IN  rec.classification = "hate_speech" =>
                 \/ rec.isAutoHidden
                 \/ \E k \in ItemsOf(moderationQueues', rec.id) :
                       moderationQueues'[k].status = "pending"
      ]_vars

\* a step of the approve or the remove route
DecisionStep ==
    /\ decision'.route \in {"approve", "remove"}
    /\ response'.route = decision'.route
    /\ <<decision, response, moderationQueues, contentAnalyses>>' #
           <<decision, response, moderationQueues, contentAnalyses>>

\* C27: a failed moderation decision changes nothing: approve or remove for
\* an id of no queue item is answered with an error, and every queue item,
\* every content analysis and the statistics are left as they were.
C27_FailedDecisionChangesNothing ==
    [][ (DecisionStep /\ IndexOf(moderationQueues, decision'.id, 1) = 0) =>
          /\ response'.status >= 400
          /\ moderationQueues' = moderationQueues
          /\ contentAnalyses' = contentAnalyses
          /\ systemStats' = systemStats
      ]_vars

\* a decision on an id of no item has been answered while the queue held a
\* pending item and its content was stored
C27_Witness ==
    /\ decision.route \in {"approve", "remove"}
    /\ response.route = decision.route
    /\ IndexOf(moderationQueues, decision.id, 1) = 0
    /\ \E k \in 1..Len(moderationQueues) :
          /\ moderationQueues[k].status = "pending"
          /\ IndexOf(contentAnalyses, moderationQueues[k].contentId, 1) # 0

\* C28: a queue item is decided at most once: approve or remove applied to an
\* item whose status is already reviewed is rejected, and the referenced
\* content keeps the reviewStatus and isAutoHidden the first decision set.
C28_ItemDecidedAtMostOnce ==
    [][ (/\ DecisionStep
         /\ IndexOf(moderationQueues, decision'.id, 1) # 0
         /\ moderationQueues[IndexOf(moderationQueues, decision'.id, 1)].status = "reviewed") =>
          /\ response'.status >= 400
          /\ Len(contentAnalyses') = Len(contentAnalyses)
          /\ \A k \in 1..Len(contentAnalyses) :
                /\ contentAnalyses'[k].reviewStatus = contentAnalyses[k].reviewStatus
                /\ contentAnalyses'[k].isAutoHidden = contentAnalyses[k].isAutoHidden
      ]_vars

\* C29: the response of POST /api/analyze is consistent with what was
\* persisted and with itself: its classification and hateScore are those of
\* the record GET /api/analysis/:id returns for its id, isHateSpeech is true
\* exactly when classification is hate_speech, and isAutoHidden implies
\* classification hate_speech.
C29_ResponseMatchesStoredRecord ==
    AnalyzeAnswered =>
        LET stored == getContentAnalysis(response.body.id)
        IN  /\ IndexOf(contentAnalyses, response.body.id, 1) # 0
            /\ response.body.classification = stored.classification
            /\ response.body.hateScore = stored.hateScore
            /\ response.body.isHateSpeech <=> response.body.classification = "hate_speech"
            /\ response.body.isAutoHidden => response.body.classification = "hate_speech"

====
